---- MODULE Spec2Model ----
(***************************************************************************)
(* posixqueue.MessageQueue: a ctypes wrapper around the POSIX message      *)
(* queue calls of librt (mq_open, mq_send, mq_timedsend, mq_receive,       *)
(* mq_timedreceive, mq_getattr, mq_close, mq_unlink).                      *)
(*                                                                         *)
(* The state is the set of MessageQueue objects (their fields and the call *)
(* each one's thread is blocked in), the kernel side they talk to (the     *)
(* name space, the queue objects, the descriptor table) and the wall       *)
(* clock.  One action per method of the class; the kernel calls a method   *)
(* makes are operators that compute the call's return value, errno and     *)
(* effect, following mq_overview(7) and the manual pages of the calls.     *)
(***************************************************************************)
EXTENDS Integers, Sequences, FiniteSets, TLC

(***************************************************************************)
(* Bounds of the model.                                                    *)
(***************************************************************************)
\* MessageQueue objects alive at the same time (one thread each).
MaxHandles == 2
\* Constructions (calls of MessageQueue(...)) in one behaviour.
MaxOpens == 3
\* Successful sends in one behaviour; also the range of the message ids.
MaxSends == 3
\* The wall clock stops at this many ticks.
MaxTime == 3
\* Clock ticks in one second (time() has a sub-second part, int() drops it).
TicksPerSec == 2
\* Content of /proc/sys/fs/mqueue/msg_max.
SysMsgMax == 3
\* Content of /proc/sys/fs/mqueue/msgsize_max.
SysMsgSizeMax == 3
\* Largest priority a caller passes.
MaxPriority == 2
\* Largest relative timeout (seconds) a caller passes.
MaxTimeout == 1

\* Python's None where an integer argument is optional.
None == -1

Handles == 1..MaxHandles
Fds == 0..(MaxHandles - 1)
QIds == 1..MaxHandles

(***************************************************************************)
(* errno values and errno.errorcode (line 6).                              *)
(***************************************************************************)
errorcode ==
    (2 :> "ENOENT") @@ (9 :> "EBADF") @@ (11 :> "EAGAIN") @@ (17 :> "EEXIST")
    @@ (22 :> "EINVAL") @@ (90 :> "EMSGSIZE") @@ (110 :> "ETIMEDOUT")

Errno(sym) == CHOOSE e \in DOMAIN errorcode : errorcode[e] = sym

\* Ramp(n): the n bytes 1, 2, 1, 2, ...
Ramp(n) == [i \in 1..n |-> ((i - 1) % 2) + 1]

\* The byte strings callers send: every length up to one byte more than
\* the largest message size the system allows.
Payloads == {Ramp(n) : n \in 1..(SysMsgSizeMax + 1)}

\* Names are sequences of characters.  The names callers pass; both denote
\* the kernel name "/q".
Names == {<<"q">>, <<"/", "q">>}
KernelNames == {<<"/", "q">>}

VARIABLES
    handles,    \* the MessageQueue objects: their fields
    call,       \* the call each object's thread is blocked in
    iters,      \* the generator made by __iter__ on each object
    namespace,  \* kernel: name -> queue id (0: no such name)
    queues,     \* kernel: the queue objects
    fds,        \* kernel: the descriptor table of the process
    now,        \* the wall clock, in ticks
    last,       \* what the latest completed method call returned or raised
    nsent,      \* number of messages enqueued so far (the last message id)
    nopen       \* number of constructions so far

vars == <<handles, call, iters, namespace, queues, fds, now, last, nsent, nopen>>

(***************************************************************************)
(* Shapes of the records.                                                  *)
(***************************************************************************)
\* A slot that holds no object (a new object takes the lowest such slot).  st: "unborn" (no object: none was
\* constructed yet, or its __del__ has run), "open" (constructed), "failed"
\* (__init__ raised; the object still awaits its finalizer).  made is history: whether this object's
\* mq_open brought the queue into existence.
NoHandle ==
    [st |-> "unborn", name |-> <<>>, creator |-> FALSE, mode |-> "", persist |-> FALSE,
     max_size |-> 0, max_messages |-> 0, ref |-> -1, made |-> FALSE]

NoFd == [q |-> 0, acc |-> "", nonblock |-> FALSE]

\* sent and rcvd are history: the messages the callers sent to this queue,
\* as they passed them, and the messages recv returned from it, as it
\* returned them, both in the order of the calls' completion.
NoQueue ==
    [live |-> FALSE, maxmsg |-> 0, msgsize |-> 0, msgs |-> <<>>, sent |-> <<>>, rcvd |-> <<>>]

NoMsg == [data |-> <<>>, prio |-> 0, id |-> 0, req |-> None]

Idle == [op |-> "idle", data |-> <<>>, priority |-> None, deadline |-> None, start |-> 0]

NoIter == [st |-> "none", yielded |-> <<>>, snap |-> <<>>, clean |-> FALSE]

NoResult ==
    [h |-> 0, op |-> "none", res |-> "none", errno |-> 0, sym |-> "", msg |-> NoMsg,
     n |-> 0, b |-> FALSE, start |-> 0, deadline |-> None, self |-> NoHandle,
     unlink |-> <<>>]

Min(S) == CHOOSE x \in S : \A y \in S : x <= y


(***************************************************************************)
(* MessageQueue.raise_error (lines 32-39): what a failing call raises.     *)
(***************************************************************************)
raise_error(errno) ==
    IF errorcode[errno] = "ETIMEDOUT"
    THEN [res |-> "Timeout", errno |-> 0, sym |-> ""]
    ELSE [res |-> "MessageQueueError", errno |-> errno, sym |-> errorcode[errno]]

\* MessageQueue.system_max_size (lines 41-44).
system_max_size == SysMsgSizeMax

\* MessageQueue.system_max_messages (lines 46-49).
system_max_messages == SysMsgMax

(***************************************************************************)
(* MessageQueue._setup_timeout (lines 27-30): the absolute deadline of a   *)
(* timed call, tv_sec = int(time()) + seconds and tv_nsec = 0.  The value  *)
(* is in whole seconds; the clock is in ticks.                             *)
(***************************************************************************)
\* A deadline counted from the clock rounded up to the next whole second.
_setup_timeout_ceil(seconds) == ((now + TicksPerSec - 1) \div TicksPerSec) + seconds

\* A deadline that is the relative timeout itself, not int(time()) + seconds.
_setup_timeout_relative(seconds) == seconds

_setup_timeout(seconds) == (now \div TicksPerSec) + seconds

\* The kernel's test of an absolute deadline against the clock.
Expired(deadline) == deadline * TicksPerSec <= now

(***************************************************************************)
(* The kernel.  K is the kernel state a call starts from, a record         *)
(* [ns, qs, fdt]; each call returns its return value, errno and the        *)
(* kernel state it leaves.                                                 *)
(***************************************************************************)
Kernel == [ns |-> namespace, qs |-> queues, fdt |-> fds]

ValidFd(K, fd) == fd \in Fds /\ K.fdt[fd].q # 0

\* A queue is destroyed once it has no name and no descriptor.
Reap(K) ==
    [K EXCEPT !.qs = [q \in QIds |->
        IF /\ K.qs[q].live
           /\ \A nm \in KernelNames : K.ns[nm] # q
           /\ \A d \in Fds : K.fdt[d].q # q
        THEN NoQueue ELSE K.qs[q]]]

\* The access mode among the open flags (O_RDONLY is the value 0).
Access(oflag) ==
    IF "O_RDWR" \in oflag THEN "rw" ELSE IF "O_WRONLY" \in oflag THEN "w" ELSE "r"

\* mq_open(3) (called at lines 91-97).  attr is <<>> when the caller gives
\* none, else <<[mq_maxmsg, mq_msgsize]>>.  made tells whether the call
\* created the queue.
mq_open(K, kname, oflag, attr) ==
    LET fd == Min({d \in Fds : K.fdt[d].q = 0})
        entry(q) == [q |-> q, acc |-> Access(oflag), nonblock |-> "O_NONBLOCK" \in oflag]
        fail(sym) == [ret |-> -1, errno |-> Errno(sym), made |-> FALSE, K |-> K]
    IN  IF K.ns[kname] # 0
        THEN IF "O_CREAT" \in oflag /\ "O_EXCL" \in oflag
             THEN fail("EEXIST")
             ELSE [ret |-> fd, errno |-> 0, made |-> FALSE,
                   K |-> [K EXCEPT !.fdt[fd] = entry(K.ns[kname])]]
        ELSE IF "O_CREAT" \notin oflag
             THEN fail("ENOENT")
             ELSE IF \/ attr = <<>>
                     \/ attr[1].mq_maxmsg <= 0 \/ attr[1].mq_maxmsg > SysMsgMax
                     \/ attr[1].mq_msgsize <= 0 \/ attr[1].mq_msgsize > SysMsgSizeMax
                  THEN fail("EINVAL")
                  ELSE LET q == Min({x \in QIds : ~K.qs[x].live})
                       IN  [ret |-> fd, errno |-> 0, made |-> TRUE,
                            K |-> [K EXCEPT
                                     !.ns[kname] = q,
                                     !.qs[q] = [NoQueue EXCEPT
                                                  !.live = TRUE,
                                                  !.maxmsg = attr[1].mq_maxmsg,
                                                  !.msgsize = attr[1].mq_msgsize],
                                     !.fdt[fd] = entry(q)]]

\* mq_close(3) (called at line 159).
mq_close(K, fd) ==
    IF ValidFd(K, fd)
    THEN [ret |-> 0, errno |-> 0, K |-> Reap([K EXCEPT !.fdt[fd] = NoFd])]
    ELSE [ret |-> -1, errno |-> Errno("EBADF"), K |-> K]

\* mq_unlink(3) (called at line 163).
mq_unlink(K, kname) ==
    IF kname \in KernelNames /\ K.ns[kname] # 0
    THEN [ret |-> 0, errno |-> 0, K |-> Reap([K EXCEPT !.ns[kname] = 0])]
    ELSE [ret |-> -1, errno |-> Errno("ENOENT"), K |-> K]

\* mq_getattr(3) (called at line 133).
mq_getattr(K, fd) ==
    IF ValidFd(K, fd)
    THEN [ret |-> 0, errno |-> 0,
          attributes |-> [mq_flags |-> IF K.fdt[fd].nonblock THEN 1 ELSE 0,
                          mq_maxmsg |-> K.qs[K.fdt[fd].q].maxmsg,
                          mq_msgsize |-> K.qs[K.fdt[fd].q].msgsize,
                          mq_curmsgs |-> Len(K.qs[K.fdt[fd].q].msgs)]]
    ELSE [ret |-> -1, errno |-> Errno("EBADF"),
          attributes |-> [mq_flags |-> 0, mq_maxmsg |-> 0, mq_msgsize |-> 0, mq_curmsgs |-> 0]]

\* The queue keeps its messages in the order it hands them out: a new
\* message goes behind every message of the same or a higher priority.
Enqueue(msgs, m) ==
    LET k == Cardinality({i \in 1..Len(msgs) : msgs[i].prio >= m.prio})
    IN  SubSeq(msgs, 1, k) \o <<m>> \o SubSeq(msgs, k + 1, Len(msgs))

\* A send that passes one byte less than len(data) as the length.
SendErrno_short(K, fd, len) ==
    IF ~ValidFd(K, fd) \/ K.fdt[fd].acc = "r" THEN Errno("EBADF")
    ELSE IF len - 1 > K.qs[K.fdt[fd].q].msgsize THEN Errno("EMSGSIZE")
    ELSE 0

\* The errors mq_send and mq_timedsend report before they look for room
\* (0: none).
SendErrno(K, fd, len) ==
    IF ~ValidFd(K, fd) \/ K.fdt[fd].acc = "r" THEN Errno("EBADF")
    ELSE IF len > K.qs[K.fdt[fd].q].msgsize THEN Errno("EMSGSIZE")
    ELSE 0

\* The errors mq_receive and mq_timedreceive report before they look for
\* a message (0: none).
RecvErrno(K, fd, buflen) ==
    IF ~ValidFd(K, fd) \/ K.fdt[fd].acc = "w" THEN Errno("EBADF")
    ELSE IF buflen < K.qs[K.fdt[fd].q].msgsize THEN Errno("EMSGSIZE")
    ELSE 0

HasRoom(K, q) == Len(K.qs[q].msgs) < K.qs[q].maxmsg
HasMessage(K, q) == K.qs[q].msgs # <<>>

\* The queue behind an open object's descriptor.
QueueOf(h) == fds[handles[h].ref].q

\* A thread blocked in a call that the queue's state now lets complete.
\* The kernel hands room and messages to its waiters first: no new call
\* on the queue gets at them before a waiter that can take them.
CanComplete(h) ==
    \/ call[h].op = "send" /\ HasRoom(Kernel, QueueOf(h))
    \/ call[h].op = "recv" /\ HasMessage(Kernel, QueueOf(h))

Pending(q) == \E h \in Handles : call[h].op # "idle" /\ QueueOf(h) = q /\ CanComplete(h)

(***************************************************************************)
(* Initial state: no object, no queue, no descriptor.                      *)
(***************************************************************************)
Init ==
    /\ handles = [h \in Handles |-> NoHandle]
    /\ call = [h \in Handles |-> Idle]
    /\ iters = [h \in Handles |-> NoIter]
    /\ namespace = [nm \in KernelNames |-> 0]
    /\ queues = [q \in QIds |-> NoQueue]
    /\ fds = [d \in Fds |-> NoFd]
    /\ now = 0
    /\ last = NoResult
    /\ nsent = 0
    /\ nopen = 0

SetKernel(K) ==
    /\ namespace' = K.ns
    /\ queues' = K.qs
    /\ fds' = K.fdt

Result(h, op, r) ==
    [NoResult EXCEPT !.h = h, !.op = op, !.res = r.res, !.errno = r.errno, !.sym = r.sym]

\* What a failing kernel call makes the method raise.  For a Timeout the
\* result keeps, as history, when the call was made and its deadline.
Raise(h, op, errno, start, deadline) ==
    IF raise_error(errno).res = "Timeout"
    THEN [Result(h, op, raise_error(errno)) EXCEPT !.start = start, !.deadline = deadline]
    ELSE Result(h, op, raise_error(errno))

Ok == [res |-> "ok", errno |-> 0, sym |-> ""]

\* An active generator on queue q, other than object except's own, has
\* seen another call change the queue.
Touch(q, except) ==
    [i \in Handles |->
        IF i # except /\ iters[i].st = "active" /\ QueueOf(i) = q
        THEN [iters[i] EXCEPT !.clean = FALSE] ELSE iters[i]]

(***************************************************************************)
(* MessageQueue.__init__ (lines 61-99).                                    *)
(***************************************************************************)
\* Lines 69-71: the name with its leading "/".
NormalName(name) ==
    IF name # <<>> /\ name[1] = "/" THEN name ELSE <<"/">> \o name

\* Lines 80-87: the open flags.
OpenFlags(mode, flags, create) ==
    flags
    \cup (IF mode = "w" THEN {"O_WRONLY"}
          ELSE IF mode = "r" THEN {}
          ELSE IF mode = "rw" THEN {"O_RDWR"} ELSE {})
    \cup (IF create THEN {"O_CREAT"} ELSE {})

__init__(h, name, mode, flags, create, max_messages, max_size, persist) ==
    /\ handles[h].st = "unborn"
    /\ \A i \in Handles : handles[i].st = "unborn" => h <= i
    /\ nopen < MaxOpens
    /\ LET size == IF max_size = None THEN system_max_size ELSE max_size
           count == IF max_messages = None THEN system_max_messages ELSE max_messages
           self == [NoHandle EXCEPT !.name = NormalName(name), !.creator = create,
                                    !.mode = mode, !.persist = persist,
                                    !.max_size = size, !.max_messages = count]
           attr == IF self.creator
                   THEN <<[mq_flags |-> 0, mq_maxmsg |-> self.max_messages,
                           mq_msgsize |-> self.max_size, mq_curmsgs |-> 0]>>
                   ELSE <<>>
           o == mq_open(Kernel, self.name, OpenFlags(mode, flags, self.creator), attr)
       IN  /\ SetKernel(o.K)
           /\ IF o.ret = -1
              THEN /\ handles' = [handles EXCEPT ![h] = [self EXCEPT !.st = "failed"]]
                   /\ last' = Result(h, "__init__", raise_error(o.errno))
              ELSE /\ handles' = [handles EXCEPT ![h] =
                                    [self EXCEPT !.st = "open", !.ref = o.ret, !.made = o.made]]
                   /\ last' = Result(h, "__init__", Ok)
    /\ nopen' = nopen + 1
    /\ iters' = [iters EXCEPT ![h] = NoIter]
    /\ UNCHANGED <<call, now, nsent>>

\* MessageQueue.get_reader (lines 51-54).
get_reader(h, name) == __init__(h, name, "r", {}, FALSE, None, None, FALSE)

\* MessageQueue.get_writer (lines 56-59).
get_writer(h, name) == __init__(h, name, "w", {}, FALSE, None, None, FALSE)

(***************************************************************************)
(* MessageQueue.__del__ (lines 158-163): the finalizer, of a constructed   *)
(* object and of one whose __init__ raised.  An exception it raises is     *)
(* reported by the interpreter and goes no further.                        *)
(***************************************************************************)
\* An unlink that does not ask whether the object is the creator.
DelUnlink_anyone(self, K) ==
    IF ~self.persist THEN mq_unlink(K, self.name).K ELSE K

\* An unlink that takes persist for its opposite.
DelUnlink_inverted(self, K) ==
    IF self.creator /\ self.persist THEN mq_unlink(K, self.name).K ELSE K

\* Lines 162-163: the unlink, whose return value is not looked at.
DelUnlink(self, K) ==
    IF self.creator /\ ~self.persist THEN mq_unlink(K, self.name).K ELSE K

\* A finalizer that goes on to the unlink although mq_close failed.
__del___unguarded(h) ==
    /\ handles[h].st \in {"open", "failed"}
    /\ call[h].op = "idle"
    /\ LET self == handles[h]
           c == mq_close(Kernel, self.ref)
       IN  /\ last' = [Result(h, "__del__", IF c.ret = -1 THEN raise_error(c.errno) ELSE Ok)
                         EXCEPT !.self = self]
           /\ SetKernel(DelUnlink(self, c.K))
    /\ handles' = [handles EXCEPT ![h] = NoHandle]
    /\ iters' = [iters EXCEPT ![h] = NoIter]
    /\ UNCHANGED <<call, now, nsent, nopen>>

\* Line 163: what the finalizer's mq_unlink returns, as <<ret>> (<<>>: it
\* makes no such call).  The code does not look at this value.
UnlinkRet(self, K) ==
    IF self.creator /\ ~self.persist THEN <<mq_unlink(K, self.name).ret>> ELSE <<>>

\* last.self and last.unlink are history: the object the finalizer ran on,
\* and the return value of its mq_unlink.
__del__(h) ==
    /\ handles[h].st \in {"open", "failed"}
    /\ call[h].op = "idle"
    /\ LET self == handles[h]
           c == mq_close(Kernel, self.ref)
       IN  IF c.ret = -1
           THEN /\ last' = [Result(h, "__del__", raise_error(c.errno)) EXCEPT !.self = self]
                /\ SetKernel(c.K)
           ELSE /\ last' = [Result(h, "__del__", Ok) EXCEPT
                               !.self = self, !.unlink = UnlinkRet(self, c.K)]
                /\ SetKernel(DelUnlink(self, c.K))
    /\ handles' = [handles EXCEPT ![h] = NoHandle]
    /\ iters' = [iters EXCEPT ![h] = NoIter]
    /\ UNCHANGED <<call, now, nsent, nopen>>

(***************************************************************************)
(* MessageQueue.send (lines 101-113).                                      *)
(***************************************************************************)
\* A send that drops the caller's priority.
SendPriority_dropped(priority) == 0

\* Lines 103-104: the priority handed to the kernel.
SendPriority(priority) == IF priority = None THEN 0 ELSE priority

\* ctypes.c_char_p(data) with ctypes.c_int(len(data)): the bytes the
\* kernel copies out of the caller's string.
SendBytes(data) == SubSeq(data, 1, Len(data))

\* The message a send enqueues (id and req are history: the order of the
\* sends and the priority argument of the caller).
NewMsg(data, priority) ==
    [data |-> SendBytes(data), prio |-> SendPriority(priority), id |-> nsent + 1,
     req |-> priority]

\* The call as the caller made it.
AsSent(data, priority) == [NewMsg(data, priority) EXCEPT !.data = data]

\* A call that never uses the timed variant of the kernel call.
Deadline_untimed(timeout) == None

\* Lines 105-108: the deadline of the call (None: mq_send, no deadline).
Deadline(timeout) == IF timeout = None THEN None ELSE _setup_timeout(timeout)

\* A timed call the clock of the model can see through to its deadline.
InTime(timeout) == timeout = None \/ _setup_timeout(timeout) * TicksPerSec <= MaxTime

\* A send that issues its kernel call twice.
DoSend_twice(h, data, priority) ==
    LET q == QueueOf(h)
    IN  /\ queues' = [queues EXCEPT
                        ![q].msgs = Enqueue(Enqueue(@, NewMsg(data, priority)),
                                            NewMsg(data, priority)),
                        ![q].sent = Append(@, AsSent(data, priority))]
        /\ nsent' = nsent + 1
        /\ last' = [Result(h, "send", Ok) EXCEPT !.msg = AsSent(data, priority)]
        /\ iters' = Touch(q, 0)

\* The effect of a completed mq_send / mq_timedsend.
DoSend(h, data, priority) ==
    LET q == QueueOf(h)
    IN  /\ queues' = [queues EXCEPT ![q].msgs = Enqueue(@, NewMsg(data, priority)),
                                    ![q].sent = Append(@, AsSent(data, priority))]
        /\ nsent' = nsent + 1
        /\ last' = [Result(h, "send", Ok) EXCEPT !.msg = AsSent(data, priority)]
        /\ iters' = Touch(q, 0)

send(h, data, priority, timeout) ==
    /\ handles[h].st = "open"
    /\ call[h].op = "idle"
    /\ nsent < MaxSends
    /\ InTime(timeout)
    /\ ~Pending(QueueOf(h))
    /\ LET self == handles[h]
           deadline == Deadline(timeout)
           errno == SendErrno(Kernel, self.ref, Len(data))
           raise(e) == /\ last' = [Raise(h, "send", e, now, deadline) EXCEPT
                                     !.msg = [NoMsg EXCEPT !.data = data]]
                       /\ UNCHANGED <<call, queues, nsent, iters>>
       IN  IF errno # 0 THEN raise(errno)
           ELSE IF HasRoom(Kernel, QueueOf(h))
           THEN DoSend(h, data, priority) /\ UNCHANGED call
           ELSE IF fds[self.ref].nonblock THEN raise(Errno("EAGAIN"))
           ELSE IF deadline # None /\ Expired(deadline) THEN raise(Errno("ETIMEDOUT"))
           ELSE /\ call' = [call EXCEPT ![h] =
                              [op |-> "send", data |-> data, priority |-> priority,
                               deadline |-> deadline, start |-> now]]
                /\ UNCHANGED <<last, queues, nsent, iters>>
    /\ UNCHANGED <<handles, namespace, fds, now, nopen>>

\* A blocked send that returns when there is room without enqueuing.
send_wake_lossy(h) ==
    /\ call[h].op = "send"
    /\ HasRoom(Kernel, QueueOf(h))
    /\ last' = [Result(h, "send", Ok) EXCEPT !.msg = AsSent(call[h].data, call[h].priority)]
    /\ call' = [call EXCEPT ![h] = Idle]
    /\ UNCHANGED <<handles, namespace, fds, now, nopen, queues, nsent, iters>>

\* A blocked send finds room: the call returns.
send_wake(h) ==
    /\ call[h].op = "send"
    /\ HasRoom(Kernel, QueueOf(h))
    /\ DoSend(h, call[h].data, call[h].priority)
    /\ call' = [call EXCEPT ![h] = Idle]
    /\ UNCHANGED <<handles, namespace, fds, now, nopen>>

(***************************************************************************)
(* MessageQueue.recv (lines 115-128).                                      *)
(***************************************************************************)
\* Line 117.
recv_buffer_size(self) == self.max_size + 1

\* A recv that returns its whole buffer instead of recv_buffer[:ret].
RecvBytes_whole(data, buflen) == data \o [i \in 1..(buflen - Len(data)) |-> 0]

\* Lines 118-128: the kernel copies the message into the zeroed buffer and
\* returns its length; the method returns recv_buffer[:ret].
RecvBytes(data, buflen) ==
    LET recv_buffer == data \o [i \in 1..(buflen - Len(data)) |-> 0]
        ret == Len(data)
    IN  SubSeq(recv_buffer, 1, ret)

\* What the completed call returns: the head message, its bytes as the
\* method slices them out of its buffer.
Received(h) ==
    LET m == Head(queues[QueueOf(h)].msgs)
    IN  [m EXCEPT !.data = RecvBytes(m.data, recv_buffer_size(handles[h]))]

\* A receive that empties the queue.
Dequeue_all(h) ==
    queues' = [queues EXCEPT ![QueueOf(h)].msgs = <<>>,
                             ![QueueOf(h)].rcvd = Append(@, Received(h))]

\* The effect of a completed mq_receive / mq_timedreceive of object h on
\* its queue.
Dequeue(h) ==
    queues' = [queues EXCEPT ![QueueOf(h)].msgs = Tail(@),
                             ![QueueOf(h)].rcvd = Append(@, Received(h))]

\* A timed receive that looks at its deadline before it looks for a
\* message.
RecvNow_deadline_first(h, timeout) ==
    LET self == handles[h]
        errno == RecvErrno(Kernel, self.ref, recv_buffer_size(self))
    IN  IF errno # 0 THEN [kind |-> "raise", errno |-> errno]
        ELSE IF timeout # None /\ Expired(Deadline(timeout))
        THEN [kind |-> "raise", errno |-> Errno("ETIMEDOUT")]
        ELSE IF HasMessage(Kernel, QueueOf(h)) THEN [kind |-> "ok", errno |-> 0]
        ELSE IF fds[self.ref].nonblock THEN [kind |-> "raise", errno |-> Errno("EAGAIN")]
        ELSE [kind |-> "block", errno |-> 0]

\* How a recv(timeout) of object h ends now: "ok", "raise" (with errno) or
\* "block".
RecvNow(h, timeout) ==
    LET self == handles[h]
        errno == RecvErrno(Kernel, self.ref, recv_buffer_size(self))
    IN  IF errno # 0 THEN [kind |-> "raise", errno |-> errno]
        ELSE IF HasMessage(Kernel, QueueOf(h)) THEN [kind |-> "ok", errno |-> 0]
        ELSE IF fds[self.ref].nonblock THEN [kind |-> "raise", errno |-> Errno("EAGAIN")]
        ELSE IF timeout # None /\ Expired(Deadline(timeout))
        THEN [kind |-> "raise", errno |-> Errno("ETIMEDOUT")]
        ELSE [kind |-> "block", errno |-> 0]

recv(h, timeout) ==
    /\ handles[h].st = "open"
    /\ call[h].op = "idle"
    /\ InTime(timeout)
    /\ ~Pending(QueueOf(h))
    /\ LET r == RecvNow(h, timeout)
           deadline == Deadline(timeout)
       IN  CASE r.kind = "ok" ->
                   /\ Dequeue(h)
                   /\ last' = [Result(h, "recv", Ok) EXCEPT !.msg = Received(h)]
                   /\ iters' = Touch(QueueOf(h), 0)
                   /\ UNCHANGED call
             [] r.kind = "raise" ->
                   /\ last' = Raise(h, "recv", r.errno, now, deadline)
                   /\ UNCHANGED <<call, queues, iters>>
             [] r.kind = "block" ->
                   /\ call' = [call EXCEPT ![h] =
                                 [Idle EXCEPT !.op = "recv", !.deadline = deadline,
                                              !.start = now]]
                   /\ UNCHANGED <<last, queues, iters>>
    /\ UNCHANGED <<handles, namespace, fds, now, nsent, nopen>>

\* A blocked recv finds a message: the call returns it.
recv_wake(h) ==
    /\ call[h].op = "recv"
    /\ HasMessage(Kernel, QueueOf(h))
    /\ Dequeue(h)
    /\ last' = [Result(h, "recv", Ok) EXCEPT !.msg = Received(h)]
    /\ iters' = Touch(QueueOf(h), 0)
    /\ call' = [call EXCEPT ![h] = Idle]
    /\ UNCHANGED <<handles, namespace, fds, now, nsent, nopen>>

\* The deadline of a blocked timed call passes: the call fails with
\* ETIMEDOUT (lines 112-113 and 126-127 raise).
timed_out(h) ==
    /\ call[h].op # "idle"
    /\ call[h].deadline # None
    /\ Expired(call[h].deadline)
    /\ ~CanComplete(h)
    /\ last' = Raise(h, call[h].op, Errno("ETIMEDOUT"), call[h].start, call[h].deadline)
    /\ call' = [call EXCEPT ![h] = Idle]
    /\ UNCHANGED <<handles, iters, namespace, queues, fds, now, nsent, nopen>>

\* The clock advances.  A blocked timed call is woken when the clock
\* reaches its deadline: the clock does not pass the deadline of a call
\* that is still blocked.
Tick ==
    /\ now < MaxTime
    /\ \A h \in Handles : call[h].op # "idle" /\ call[h].deadline # None
                            => ~Expired(call[h].deadline)
    /\ now' = now + 1
    /\ UNCHANGED <<handles, call, iters, namespace, queues, fds, last, nsent, nopen>>

(***************************************************************************)
(* MessageQueue._read_attributes, __len__, empty, full (lines 130-148).    *)
(* LenOf, IsEmpty and IsFull are the values the methods return in the      *)
(* current state; the actions are the calls.                               *)
(***************************************************************************)
_read_attributes(h) == mq_getattr(Kernel, handles[h].ref)

\* A __len__ that reads the wrong field of the attributes.
LenOf_maxmsg(h) == _read_attributes(h).attributes.mq_maxmsg

LenOf(h) == _read_attributes(h).attributes.mq_curmsgs

IsEmpty(h) == LenOf(h) = 0

IsFull(h) == LenOf(h) = handles[h].max_messages

Query(h, op, n, b) ==
    /\ handles[h].st = "open"
    /\ call[h].op = "idle"
    /\ last' = IF _read_attributes(h).ret = -1
               THEN Result(h, op, raise_error(_read_attributes(h).errno))
               ELSE [Result(h, op, Ok) EXCEPT !.n = n, !.b = b]
    /\ UNCHANGED <<handles, call, iters, namespace, queues, fds, now, nsent, nopen>>

__len__(h) == Query(h, "__len__", LenOf(h), FALSE)

empty(h) == Query(h, "empty", 0, IsEmpty(h))

full(h) == Query(h, "full", 0, IsFull(h))

(***************************************************************************)
(* MessageQueue.__iter__ (lines 150-156): a generator.  __iter__ makes it; *)
(* each next() of its consumer runs one recv(timeout=0) and yields the     *)
(* message, or ends the generator on Timeout (raise StopIteration inside a *)
(* generator ends it, in the Python 2 this code is written for); another   *)
(* exception leaves the generator.  snap and clean are history: the        *)
(* queue's messages when the generator was made, and whether no other call *)
(* has changed the queue since.                                            *)
(***************************************************************************)
__iter__(h) ==
    /\ handles[h].st = "open"
    /\ call[h].op = "idle"
    /\ iters' = [iters EXCEPT ![h] =
                   [st |-> "active", yielded |-> <<>>, snap |-> queues[QueueOf(h)].msgs,
                    clean |-> TRUE]]
    /\ UNCHANGED <<handles, call, namespace, queues, fds, now, last, nsent, nopen>>

\* A generator whose recv is given no timeout.
IterTimeout_blocking == None

\* Line 154: the timeout of the generator's recv.
IterTimeout == 0

\* A generator without the except clause: the Timeout of the last recv
\* leaves the generator as an error.
next_propagating(h) ==
    /\ handles[h].st = "open"
    /\ call[h].op = "idle"
    /\ iters[h].st = "active"
    /\ ~Pending(QueueOf(h))
    /\ LET r == RecvNow(h, IterTimeout)
           e == raise_error(r.errno)
       IN  /\ r.kind # "block"
           /\ IF r.kind = "ok"
              THEN /\ Dequeue(h)
                   /\ last' = [Result(h, "next", Ok) EXCEPT !.msg = Received(h)]
                   /\ iters' = [Touch(QueueOf(h), h) EXCEPT
                                  ![h].yielded = Append(@, Received(h))]
              ELSE /\ UNCHANGED queues
                   /\ last' = Result(h, "next", e)
                   /\ iters' = [iters EXCEPT ![h].st = "error"]
    /\ UNCHANGED <<handles, call, namespace, fds, now, nsent, nopen>>

next(h) ==
    /\ handles[h].st = "open"
    /\ call[h].op = "idle"
    /\ iters[h].st = "active"
    /\ ~Pending(QueueOf(h))
    /\ LET r == RecvNow(h, IterTimeout)
           e == raise_error(r.errno)
       IN  /\ r.kind # "block"
           /\ IF r.kind = "ok"
              THEN /\ Dequeue(h)
                   /\ last' = [Result(h, "next", Ok) EXCEPT !.msg = Received(h)]
                   /\ iters' = [Touch(QueueOf(h), h) EXCEPT
                                  ![h].yielded = Append(@, Received(h))]
              ELSE /\ UNCHANGED queues
                   /\ IF e.res = "Timeout"
                      THEN /\ last' = [Result(h, "next", Ok) EXCEPT !.res = "StopIteration"]
                           /\ iters' = [iters EXCEPT ![h].st = "done"]
                      ELSE /\ last' = Result(h, "next", e)
                           /\ iters' = [iters EXCEPT ![h].st = "error"]
    /\ UNCHANGED <<handles, call, namespace, fds, now, nsent, nopen>>

(***************************************************************************)
(* The next-state relations.  A is the record of the sets the callers'     *)
(* arguments are drawn from.                                               *)
(***************************************************************************)
Construct(A) ==
    \/ \E h \in Handles, name \in A.names, mode \in A.modes, flags \in A.flagsets,
          create \in A.creates, max_messages \in A.max_messages,
          max_size \in A.max_sizes, persist \in A.persists :
          __init__(h, name, mode, flags, create, max_messages, max_size, persist)
    \/ \E h \in Handles, name \in A.names : get_reader(h, name)
    \/ \E h \in Handles, name \in A.names : get_writer(h, name)

Finalize ==
    \E h \in Handles : __del__(h)

Traffic(A) ==
    \/ \E h \in Handles, data \in A.payloads, priority \in A.priorities,
          timeout \in A.timeouts : send(h, data, priority, timeout)
    \/ \E h \in Handles, timeout \in A.timeouts : recv(h, timeout)

Wakeups ==
    \/ \E h \in Handles : send_wake(h)
    \/ \E h \in Handles : recv_wake(h)

Queries ==
    \/ \E h \in Handles : __len__(h)
    \/ \E h \in Handles : empty(h)
    \/ \E h \in Handles : full(h)

Iteration ==
    \/ \E h \in Handles : __iter__(h)
    \/ \E h \in Handles : next(h)

Clock ==
    \/ \E h \in Handles : timed_out(h)
    \/ Tick

(***************************************************************************)
(* Specifications.  Each draws the callers' arguments from the sets its    *)
(* claims are about and fixes the others to the defaults of __init__,      *)
(* send and recv.                                                          *)
(***************************************************************************)
Priorities == {None} \cup (1..MaxPriority)

\* The arguments of the tests (tests.py line 12: MessageQueue(name, create=True)).
Defaults ==
    [names |-> {<<"q">>}, modes |-> {"rw"}, flagsets |-> {{}}, creates |-> {TRUE},
     max_messages |-> {None}, max_sizes |-> {None}, persists |-> {FALSE},
     payloads |-> {Ramp(1)}, priorities |-> {None}, timeouts |-> {None}]

(***************************************************************************)
(* Spec: the data path.  Objects that create the queue, readers and        *)
(* writers (get_reader, get_writer) exchange messages of every priority,   *)
(* with blocking and with non-waiting (timeout=0) calls.                   *)
(***************************************************************************)
ArgsData ==
    [Defaults EXCEPT !.max_messages = {None, 1},
                     !.payloads = {Ramp(1), Ramp(SysMsgSizeMax)},
                     !.priorities = Priorities,
                     !.timeouts = {None, 0}]

Next == Construct(ArgsData) \/ Traffic(ArgsData) \/ Wakeups

Spec == Init /\ [][Next]_vars

(***************************************************************************)
(* Properties of the data path.                                            *)
(***************************************************************************)
Range(f) == {f[i] : i \in DOMAIN f}
Ids(f) == {f[i].id : i \in DOMAIN f}
Datas(f) == [i \in DOMAIN f |-> f[i].data]

\* The priority the caller asked for; a send without one asks for 0.
ReqPrio(m) == IF m.req = None THEN 0 ELSE m.req

\* Among the messages S, the one a recv has to return: the highest
\* priority asked for, and among those the one sent first.
First(S) ==
    CHOOSE m \in S : \A o \in S :
        ReqPrio(m) > ReqPrio(o) \/ (ReqPrio(m) = ReqPrio(o) /\ m.id <= o.id)

\* The messages sent to queue q and not yet returned by a recv.
Outstanding(q) == {m \in Range(queues[q].sent) : m.id \notin Ids(queues[q].rcvd)}

\* A step in which a recv (or a generator's recv) on queue q returns a message.
RecvStep(q) ==
    /\ queues[q].live /\ queues'[q].live
    /\ Len(queues'[q].rcvd) = Len(queues[q].rcvd) + 1

\* A step in which a send on queue q enqueues a message.
SendStep(q) ==
    /\ queues[q].live /\ queues'[q].live
    /\ Len(queues'[q].sent) = Len(queues[q].sent) + 1

\* C1: every recv that returns a message returns the message that, among
\* those sent to the queue and not yet received, was sent with the highest
\* priority, and among those of that priority the one sent first; a
\* message sent without a priority is enqueued with priority 0 (and one
\* sent with a priority with that priority).
C1_PriorityOrder ==
    [][\A q \in QIds :
         /\ RecvStep(q) =>
              /\ last'.res = "ok" /\ last'.op \in {"recv", "next"}
              /\ last'.msg.id = First(Outstanding(q)).id
              /\ last'.msg.data = First(Outstanding(q)).data
              /\ queues'[q].rcvd = Append(queues[q].rcvd, last'.msg)
         /\ SendStep(q) =>
              \E i \in DOMAIN queues'[q].msgs :
                 /\ queues'[q].msgs[i].id = last'.msg.id
                 /\ queues'[q].msgs[i].prio = ReqPrio(last'.msg)
                 /\ last'.msg.req = None => queues'[q].msgs[i].prio = 0]_vars

\* C1 witness: three messages were sent with a low (none given: 0), a high
\* and a middle priority, in that order, and three recv calls have returned
\* them: the high, the middle, the low.
C1_Witness ==
    \E q \in QIds :
        /\ Len(queues[q].sent) = 3 /\ Len(queues[q].rcvd) = 3
        /\ queues[q].sent[1].req = None
        /\ queues[q].sent[2].req = 2
        /\ queues[q].sent[3].req = 1
        /\ queues[q].rcvd[1].id = queues[q].sent[2].id
        /\ queues[q].rcvd[2].id = queues[q].sent[3].id
        /\ queues[q].rcvd[3].id = queues[q].sent[1].id
        /\ last.op = "recv" /\ last.res = "ok"

\* C2: when every message sent to a queue was sent with the default
\* priority, the recv calls return the payloads exactly as they were passed
\* to send, byte for byte and in the order of the sends: what has been
\* received is the beginning of what has been sent, and the rest is what
\* the queue still holds, in that order (none lost, duplicated, truncated).
C2_RoundTrip ==
    \A q \in QIds :
        (queues[q].live /\ \A i \in DOMAIN queues[q].sent : queues[q].sent[i].req = None) =>
            LET sent == queues[q].sent
                rcvd == queues[q].rcvd
                k == Len(rcvd)
            IN  /\ k <= Len(sent)
                /\ Datas(rcvd) = SubSeq(Datas(sent), 1, k)
                /\ [i \in DOMAIN rcvd |-> rcvd[i].id] = [i \in 1..k |-> sent[i].id]
                /\ Datas(queues[q].msgs) = SubSeq(Datas(sent), k + 1, Len(sent))

\* C2 witness: three payloads, not all the same, were sent with the default
\* priority to a queue of three messages and three recv calls returned them.
C2_Witness ==
    \E q \in QIds :
        /\ queues[q].live /\ queues[q].maxmsg = SysMsgMax
        /\ Len(queues[q].sent) = 3 /\ Len(queues[q].rcvd) = 3
        /\ \A i \in 1..3 : queues[q].sent[i].req = None
        /\ queues[q].sent[1].data # queues[q].sent[2].data
        /\ Len(queues[q].sent[3].data) = queues[q].msgsize
        /\ last.op = "recv" /\ last.res = "ok" /\ last.msg.data = queues[q].sent[3].data

\* C9: for every queue, whatever objects send to it and receive from it and
\* however their calls interleave: no message is returned by two recv
\* calls, every message a recv returned was sent (to this queue, with the
\* bytes returned), the queue holds exactly the messages sent and not yet
\* received, each once, and never more than its mq_maxmsg.
C9_ExactlyOnce ==
    /\ \A q \in QIds : queues[q].live =>
          /\ Cardinality(Ids(queues[q].rcvd)) = Len(queues[q].rcvd)
          /\ Cardinality(Ids(queues[q].sent)) = Len(queues[q].sent)
          /\ \A r \in Range(queues[q].rcvd) :
                \E m \in Range(queues[q].sent) : m.id = r.id /\ m.data = r.data
          /\ Ids(queues[q].msgs) = Ids(queues[q].sent) \ Ids(queues[q].rcvd)
          /\ Cardinality(Ids(queues[q].msgs)) = Len(queues[q].msgs)
          /\ Len(queues[q].msgs) <= queues[q].maxmsg
    /\ \A q1, q2 \in QIds : q1 # q2 => Ids(queues[q1].sent) \cap Ids(queues[q2].sent) = {}

\* C9 witness: two objects are open on the same queue, one of them a
\* reader; two messages were sent and both received, the last one by the
\* reader, while the other object is blocked in a recv on the same queue.
C9_Witness ==
    \E h1, h2 \in Handles :
        /\ h1 # h2
        /\ handles[h1].st = "open" /\ handles[h2].st = "open"
        /\ QueueOf(h1) = QueueOf(h2)
        /\ handles[h2].mode = "r"
        /\ Len(queues[QueueOf(h1)].sent) = 2
        /\ Len(queues[QueueOf(h1)].rcvd) = 2
        /\ last.h = h2 /\ last.op = "recv" /\ last.res = "ok"
        /\ call[h1].op = "recv"

(***************************************************************************)
(* SpecLimits: the limits of a queue.  Queues are created with the system  *)
(* limits and with max_messages = 1 or max_size = 1; payloads have every   *)
(* length up to one byte more than the largest message size; objects ask   *)
(* for __len__, empty and full.                                            *)
(***************************************************************************)
ArgsLimits ==
    [Defaults EXCEPT !.max_messages = {None, 1},
                     !.max_sizes = {None, 1},
                     !.payloads = Payloads,
                     !.timeouts = {None, 0}]

NextLimits == Construct(ArgsLimits) \/ Traffic(ArgsLimits) \/ Wakeups \/ Queries

SpecLimits == Init /\ [][NextLimits]_vars

\* C3: on an object whose open created its queue, as long as no message
\* has been received the length is the number of successful sends N: a
\* fresh queue (N = 0) has len() = 0, empty() true and full() false; after
\* N >= 1 sends len() = N and empty() is false; full() is true exactly when
\* N = max_messages (when the queue has no room).  The values the calls
\* __len__, empty and full return are these.
C3_LenEmptyFull ==
    \A h \in Handles :
        (handles[h].st = "open" /\ handles[h].made /\ queues[QueueOf(h)].rcvd = <<>>) =>
            LET N == Len(queues[QueueOf(h)].sent)
            IN  /\ LenOf(h) = N
                /\ IsEmpty(h) <=> (N = 0)
                /\ N <= handles[h].max_messages
                /\ IsFull(h) <=> (N = handles[h].max_messages)
                /\ IsFull(h) <=> ~HasRoom(Kernel, QueueOf(h))
                /\ (last.h = h /\ last.op = "__len__") => (last.res = "ok" /\ last.n = N)
                /\ (last.h = h /\ last.op = "empty") => (last.res = "ok" /\ last.b = (N = 0))
                /\ (last.h = h /\ last.op = "full") =>
                      (last.res = "ok" /\ last.b = (N = handles[h].max_messages))

\* C3 witness: the object that created a queue with the system's
\* max_messages has sent that many messages, none was received, and its
\* full() has just returned true.
C3_Witness ==
    \E h \in Handles :
        /\ handles[h].st = "open" /\ handles[h].made
        /\ handles[h].max_messages = SysMsgMax
        /\ Len(queues[QueueOf(h)].sent) = SysMsgMax
        /\ queues[QueueOf(h)].rcvd = <<>>
        /\ last.h = h /\ last.op = "full" /\ last.b

\* C4: for a send on an object with write access (max_size is the message
\* size the queue was created with, which is the max_size of the object
\* that created it): a payload of exactly max_size bytes sent to a queue
\* with room is enqueued and the call succeeds; a payload of max_size + 1
\* bytes makes the call raise MessageQueueError(EMSGSIZE, "EMSGSIZE"), not
\* Timeout, with or without a timeout, and nothing is enqueued.
C4_SizeBoundary ==
    [][\A h \in Handles :
          (handles[h].st = "open" /\ call[h].op = "idle"
             /\ fds[handles[h].ref].acc # "r") =>
             LET q == QueueOf(h)
             IN  /\ handles[h].made => handles[h].max_size = queues[q].msgsize
                 /\ \A data \in Payloads, priority \in Priorities,
                       timeout \in {None} \cup (0..MaxTimeout) :
                       /\ ( /\ Len(data) = queues[q].msgsize /\ HasRoom(Kernel, q)
                            /\ send(h, data, priority, timeout) ) =>
                             /\ last'.res = "ok"
                             /\ Len(queues'[q].msgs) = Len(queues[q].msgs) + 1
                             /\ \E i \in DOMAIN queues'[q].msgs :
                                   /\ queues'[q].msgs[i].id = nsent'
                                   /\ queues'[q].msgs[i].data = data
                       /\ ( /\ Len(data) = queues[q].msgsize + 1
                            /\ send(h, data, priority, timeout) ) =>
                             /\ last'.res = "MessageQueueError"
                             /\ last'.errno = Errno("EMSGSIZE") /\ last'.sym = "EMSGSIZE"
                             /\ queues' = queues /\ call' = call /\ nsent' = nsent]_vars

\* C4 witness: a queue holds a message of exactly its message size, and a
\* send of one byte more has just raised the size error.
C4_Witness ==
    \E h \in Handles :
        /\ handles[h].st = "open"
        /\ last.h = h /\ last.op = "send" /\ last.res = "MessageQueueError"
        /\ last.sym = "EMSGSIZE"
        /\ Len(last.msg.data) = queues[QueueOf(h)].msgsize + 1
        /\ \E m \in Range(queues[QueueOf(h)].msgs) : Len(m.data) = queues[QueueOf(h)].msgsize

(***************************************************************************)
(* SpecTime: calls with and without a timeout against the clock, on        *)
(* descriptors opened with and without O_NONBLOCK.  SpecTimeFair adds what *)
(* the system guarantees: the clock advances, and the kernel wakes a       *)
(* blocked call that can complete or whose deadline has passed.            *)
(***************************************************************************)
ArgsTime ==
    [Defaults EXCEPT !.max_messages = {None, 1},
                     !.flagsets = {{}, {"O_NONBLOCK"}},
                     !.timeouts = {None} \cup (0..MaxTimeout)]

NextTime == Construct(ArgsTime) \/ Traffic(ArgsTime) \/ Wakeups \/ Clock

SpecTime == Init /\ [][NextTime]_vars

SpecTimeFair ==
    /\ SpecTime
    /\ WF_vars(Tick)
    /\ \A h \in Handles :
          WF_vars(timed_out(h)) /\ WF_vars(send_wake(h)) /\ WF_vars(recv_wake(h))

\* A blocked call of object h that has a deadline.
TimedBlocked(h, op) == call[h].op = op /\ call[h].deadline # None

\* The relative timeout a blocked call was made with, in seconds.
TimeoutOf(h) == call[h].deadline - (call[h].start \div TicksPerSec)

\* The blocked timed call of h ends in this step by raising Timeout: the
\* clock has just reached the deadline, which is more than T - 1 and at
\* most T seconds after the call (for timeout = 1: within one second, and
\* not at the instant of the call), and the queue is as it was.
EndsByTimeout(h, op) ==
    /\ last'.h = h /\ last'.op = op /\ last'.res = "Timeout"
    /\ now = call[h].deadline * TicksPerSec
    /\ now - call[h].start > TicksPerSec * (TimeoutOf(h) - 1)
    /\ now - call[h].start <= TicksPerSec * TimeoutOf(h)
    /\ now - call[h].start > 0
    /\ queues' = queues

\* C5: a send with a timeout of one second (or more) on an object with
\* write access to a full queue, through a descriptor opened without
\* O_NONBLOCK, does not return at the instant of the call: it blocks,
\* raising and enqueuing nothing.  The blocked call ends either by raising
\* Timeout, exactly when the clock reaches its deadline (more than
\* timeout - 1 and at most timeout seconds after the call) with the queue
\* still full, or by success once the queue has room; room is only ever
\* made by a recv, so with no consumer it ends by Timeout.  And it ends:
\* the call is never blocked forever.
C5_TimedSendFull ==
    /\ [][\A h \in Handles, data \in Payloads, priority \in Priorities,
             timeout \in 1..MaxTimeout :
             ( /\ send(h, data, priority, timeout)
               /\ fds[handles[h].ref].acc # "r" /\ ~fds[handles[h].ref].nonblock
               /\ Len(data) <= queues[QueueOf(h)].msgsize
               /\ ~HasRoom(Kernel, QueueOf(h)) ) =>
                  /\ call'[h].op = "send" /\ call'[h].start = now
                  /\ call'[h].deadline = (now \div TicksPerSec) + timeout
                  /\ last' = last /\ queues' = queues]_vars
    /\ [][\A h \in Handles :
             (TimedBlocked(h, "send") /\ call'[h].op = "idle") =>
                \/ EndsByTimeout(h, "send") /\ ~HasRoom(Kernel, QueueOf(h))
                \/ /\ last'.h = h /\ last'.op = "send" /\ last'.res = "ok"
                   /\ HasRoom(Kernel, QueueOf(h))]_vars
    /\ [][\A q \in QIds :
             (queues[q].live /\ queues'[q].live
                /\ Len(queues'[q].msgs) < Len(queues[q].msgs)) => RecvStep(q)]_vars
    /\ \A h \in Handles : TimedBlocked(h, "send") ~> (call[h].op = "idle")

\* C5 witness: a send(timeout=1) on a full queue from which nothing was
\* ever received has raised Timeout, one second after it was called.
C5_Witness ==
    /\ last.op = "send" /\ last.res = "Timeout"
    /\ last.deadline = (last.start \div TicksPerSec) + 1
    /\ now = last.deadline * TicksPerSec
    /\ now - last.start = TicksPerSec
    /\ handles[last.h].st = "open"
    /\ ~HasRoom(Kernel, QueueOf(last.h))
    /\ queues[QueueOf(last.h)].rcvd = <<>>

\* C6: a recv with a timeout of one second (or more) on an object with
\* read access to an empty queue, through a descriptor opened without
\* O_NONBLOCK, returns no message at the call: it blocks.  The blocked call
\* ends either by raising Timeout (no other error) exactly when the clock
\* reaches its deadline, with the queue still empty, or by returning a
\* message once the queue holds one; messages only ever arrive by a send,
\* so with no producer it ends by Timeout.  It is never blocked forever.
C6_TimedRecvEmpty ==
    /\ [][\A h \in Handles, timeout \in 1..MaxTimeout :
             ( /\ recv(h, timeout)
               /\ fds[handles[h].ref].acc # "w" /\ ~fds[handles[h].ref].nonblock
               /\ recv_buffer_size(handles[h]) >= queues[QueueOf(h)].msgsize
               /\ ~HasMessage(Kernel, QueueOf(h)) ) =>
                  /\ call'[h].op = "recv" /\ call'[h].start = now
                  /\ call'[h].deadline = (now \div TicksPerSec) + timeout
                  /\ last' = last /\ queues' = queues]_vars
    /\ [][\A h \in Handles :
             (TimedBlocked(h, "recv") /\ call'[h].op = "idle") =>
                \/ EndsByTimeout(h, "recv") /\ ~HasMessage(Kernel, QueueOf(h))
                \/ /\ last'.h = h /\ last'.op = "recv" /\ last'.res = "ok"
                   /\ HasMessage(Kernel, QueueOf(h))
                   /\ last'.msg.id = Head(queues[QueueOf(h)].msgs).id]_vars
    /\ [][\A q \in QIds :
             (queues[q].live /\ queues'[q].live
                /\ Len(queues'[q].msgs) > Len(queues[q].msgs)) => SendStep(q)]_vars
    /\ \A h \in Handles : TimedBlocked(h, "recv") ~> (call[h].op = "idle")

\* C6 witness: a recv(timeout=1) on a queue to which nothing was ever sent
\* has raised Timeout, one second after it was called.
C6_Witness ==
    /\ last.op = "recv" /\ last.res = "Timeout"
    /\ last.deadline = (last.start \div TicksPerSec) + 1
    /\ now = last.deadline * TicksPerSec
    /\ now - last.start = TicksPerSec
    /\ handles[last.h].st = "open"
    /\ queues[QueueOf(last.h)].sent = <<>>

(***************************************************************************)
(* SpecLife: the life of objects and queues.  Objects are constructed      *)
(* with and without create, persist and O_EXCL, under both spellings of    *)
(* the name and with a max_messages the system refuses; they send and      *)
(* receive without waiting, and they are finalized.                        *)
(***************************************************************************)
ArgsLife ==
    [Defaults EXCEPT !.names = Names,
                     !.flagsets = {{}, {"O_EXCL"}},
                     !.creates = BOOLEAN,
                     !.max_messages = {None, SysMsgMax + 1},
                     !.persists = BOOLEAN,
                     !.timeouts = {0}]

NextLife == Construct(ArgsLife) \/ Finalize \/ Traffic(ArgsLife)

SpecLife == Init /\ [][NextLife]_vars

\* This step is the finalizer of object h, which was in state st.
Disposed(h, st) == handles[h].st = st /\ handles'[h].st = "unborn"

\* An open of the name without create (lines 95-97), from kernel state K.
LaterOpen(K, kname, mode) == mq_open(K, kname, OpenFlags(mode, {}, FALSE), <<>>)

\* C7: when an open object constructed with create=True and persist=False
\* is finalized, its name is not in the namespace afterwards, and an open
\* of the name without create, in any mode, fails with the
\* MessageQueueError of ENOENT.  When an open object constructed with
\* create=True and persist=True is finalized while its name is in the
\* namespace, the name still names the same queue afterwards and an open
\* without create succeeds.
C7_Lifetime ==
    [][\A h \in Handles : Disposed(h, "open") =>
          LET self == handles[h] IN
          /\ (self.creator /\ ~self.persist) =>
                /\ namespace'[self.name] = 0
                /\ \A mode \in {"r", "w", "rw"} :
                      LET o == LaterOpen(Kernel', self.name, mode)
                      IN  /\ o.ret = -1
                          /\ raise_error(o.errno).res = "MessageQueueError"
                          /\ raise_error(o.errno).sym = "ENOENT"
          /\ (self.creator /\ self.persist /\ namespace[self.name] # 0) =>
                /\ namespace'[self.name] = namespace[self.name]
                /\ queues'[namespace[self.name]] = queues[namespace[self.name]]
                /\ \A mode \in {"r", "w", "rw"} :
                      LaterOpen(Kernel', self.name, mode).ret # -1]_vars

\* C7 witness: the finalizer of an object that created its queue with
\* persist=False has run after a message was sent, and the name is gone.
C7_Witness ==
    /\ last.op = "__del__" /\ last.res = "ok"
    /\ last.self.st = "open" /\ last.self.creator /\ ~last.self.persist
    /\ last.self.made
    /\ nsent > 0
    /\ namespace[last.self.name] = 0

\* C10: a construction whose mq_open fails raises the MessageQueueError of
\* the call's errno and changes nothing in the kernel: the namespace, the
\* queues with their messages and the descriptor table are as before, and
\* the object holds no descriptor (its reference is -1).  The finalizer of
\* such an object changes nothing in the kernel either: it closes no
\* descriptor and unlinks no queue.
C10_AtomicOpenFailure ==
    [][\A h \in Handles :
          /\ (handles[h].st = "unborn" /\ handles'[h].st = "failed") =>
                /\ last'.h = h /\ last'.op = "__init__"
                /\ last'.res = "MessageQueueError"
                /\ last'.errno # 0 /\ last'.sym = errorcode[last'.errno]
                /\ handles'[h].ref = -1
                /\ namespace' = namespace /\ queues' = queues /\ fds' = fds
          /\ Disposed(h, "failed") =>
                namespace' = namespace /\ queues' = queues /\ fds' = fds]_vars

\* C10 witness: the finalizer of an object whose creating open failed has
\* run, while the name was in the namespace, its queue held a message and
\* another object had the queue open.
C10_Witness ==
    /\ last.op = "__del__" /\ last.self.st = "failed"
    /\ last.self.creator /\ ~last.self.persist
    /\ namespace[last.self.name] # 0
    /\ queues[namespace[last.self.name]].msgs # <<>>
    /\ \E d \in Fds : fds[d].q = namespace[last.self.name]

(***************************************************************************)
(* SpecIter: iteration.  Creators, readers and writers send messages with  *)
(* and without a priority, receive without waiting, and iterate.           *)
(***************************************************************************)
ArgsIter ==
    [Defaults EXCEPT !.payloads = {Ramp(2)},
                     !.priorities = {None, MaxPriority},
                     !.timeouts = {0}]

NextIter == Construct(ArgsIter) \/ Traffic(ArgsIter) \/ Iteration

SpecIter == Init /\ [][NextIter]_vars

\* Object h can receive: it has read access, its descriptor was opened
\* without O_NONBLOCK, and its buffer holds the queue's largest message.
CanReceive(h) ==
    /\ handles[h].st = "open"
    /\ fds[handles[h].ref].acc # "w"
    /\ ~fds[handles[h].ref].nonblock
    /\ recv_buffer_size(handles[h]) >= queues[QueueOf(h)].msgsize

\* The message with this id as its sender passed it to send.
SentAs(q, id) == CHOOSE m \in Range(queues[q].sent) : m.id = id

\* y, the messages a generator has yielded so far, are in dequeue order the
\* first Len(y) of the messages s: each is, byte for byte as it was sent,
\* the one of the highest priority asked for, sent first among equals,
\* among the messages of s not yielded before it.
YieldedInOrder(q, y, s) ==
    /\ Len(y) <= Len(s)
    /\ \A i \in 1..Len(y) :
          LET rest == {SentAs(q, id) : id \in Ids(s) \ {y[j].id : j \in 1..(i - 1)}}
          IN  /\ y[i].id \in Ids(s)
              /\ y[i].id = First(rest).id
              /\ y[i].data = SentAs(q, y[i].id).data

\* C8: for a generator of an object that can receive, made when the queue
\* held the messages snap, and with no other call changing the queue since:
\* the messages it has yielded are the first of snap in dequeue order
\* (highest priority first, send order among equals), each with the bytes
\* that were sent; it has raised no error; and when it ends, it ends by
\* StopIteration in the step in which its recv(timeout=0) finds the queue
\* empty, having yielded all of snap, and leaves the queue empty.
C8_IterDrain ==
    /\ [](\A h \in Handles :
             (CanReceive(h) /\ iters[h].st # "none" /\ iters[h].clean) =>
                /\ iters[h].st # "error"
                /\ YieldedInOrder(QueueOf(h), iters[h].yielded, iters[h].snap)
                /\ iters[h].st = "active" =>
                      queues[QueueOf(h)].msgs =
                         SubSeq(iters[h].snap, Len(iters[h].yielded) + 1, Len(iters[h].snap))
                /\ iters[h].st = "done" => Len(iters[h].yielded) = Len(iters[h].snap))
    /\ [][\A h \in Handles :
             (CanReceive(h) /\ iters[h].st = "active" /\ iters[h].clean
                /\ iters'[h].st # "active" /\ handles'[h].st = "open") =>
                /\ iters'[h].st = "done"
                /\ last'.h = h /\ last'.op = "next" /\ last'.res = "StopIteration"
                /\ last'.errno = 0
                /\ queues[QueueOf(h)].msgs = <<>>
                /\ queues' = queues]_vars

\* C8 witness: a generator made on a queue of two messages, the second
\* sent with the higher priority, has yielded both and ended.
C8_Witness ==
    \E h \in Handles :
       /\ CanReceive(h) /\ iters[h].st = "done" /\ iters[h].clean
       /\ last.h = h /\ last.op = "next" /\ last.res = "StopIteration"
       /\ Len(iters[h].snap) = 2
       /\ iters[h].snap[1].id > iters[h].snap[2].id
       /\ Len(iters[h].yielded) = 2
       /\ queues[QueueOf(h)].msgs = <<>>

(***************************************************************************)
(* Error reporting.                                                        *)
(***************************************************************************)
\* What the last call raised is classified as raise_error classifies: a
\* MessageQueueError carries an errno other than ETIMEDOUT and its name
\* in errorcode; a Timeout carries nothing.
Classified ==
    /\ last.res \in {"none", "ok", "StopIteration", "Timeout", "MessageQueueError"}
    /\ last.res = "MessageQueueError" =>
          /\ last.errno \in DOMAIN errorcode
          /\ errorcode[last.errno] # "ETIMEDOUT"
          /\ last.sym = errorcode[last.errno]
    /\ last.res # "MessageQueueError" => last.errno = 0 /\ last.sym = ""

\* In this step no failing mq_open, mq_send, mq_receive or mq_close goes
\* unreported: a construction that gets no descriptor raises; a send that
\* neither enqueues nor blocks raises, and so does a recv that neither
\* dequeues nor blocks; a finalizer whose descriptor is not open raises.
\* The call is made once: a raising call changes nothing in the kernel.
FailuresRaised ==
    \A h \in Handles :
       /\ (handles[h].st = "unborn" /\ handles'[h].st # "unborn") =>
             IF fds' = fds
             THEN /\ handles'[h].st = "failed"
                  /\ last'.h = h /\ last'.op = "__init__"
                  /\ last'.res = "MessageQueueError"
                  /\ namespace' = namespace /\ queues' = queues
             ELSE /\ handles'[h].st = "open" /\ last'.res = "ok"
                  /\ ~ValidFd(Kernel, handles'[h].ref)
                  /\ ValidFd(Kernel', handles'[h].ref)
       /\ \A data \in Payloads, priority \in Priorities, timeout \in {None, 0} :
             (send(h, data, priority, timeout) /\ queues' = queues /\ call' = call) =>
                /\ last'.h = h /\ last'.op = "send"
                /\ last'.res \in {"Timeout", "MessageQueueError"}
       /\ \A timeout \in {None, 0} :
             (recv(h, timeout) /\ queues' = queues /\ call' = call) =>
                /\ last'.h = h /\ last'.op = "recv"
                /\ last'.res \in {"Timeout", "MessageQueueError"}
       /\ (Disposed(h, "open") \/ Disposed(h, "failed")) =>
             IF ValidFd(Kernel, handles[h].ref)
             THEN last'.res = "ok" /\ ~ValidFd(Kernel', handles[h].ref)
             ELSE /\ last'.h = h /\ last'.op = "__del__"
                  /\ last'.res = "MessageQueueError" /\ last'.sym = "EBADF"
                  /\ namespace' = namespace /\ queues' = queues /\ fds' = fds

\* The failures of open, send, receive and close are all raised, and
\* raised as classified.
C11_RaisedButUnlink == []Classified /\ [][FailuresRaised]_vars

\* C11: every failing boundary call is raised to the caller, as Timeout
\* exactly for ETIMEDOUT and as MessageQueueError(errno, name) otherwise;
\* none completes as if it had succeeded.  This includes the mq_unlink of
\* the finalizer: when it returns -1, the finalizer raises.
C11_AllSurfaced ==
    /\ []Classified
    /\ [][FailuresRaised]_vars
    /\ [](last.unlink = <<-1>> => last.res = "MessageQueueError")

\* C11: a finalizer has completed without raising although its mq_unlink
\* returned -1 (the name had already been unlinked by another creator).
C11_Witness ==
    /\ last.op = "__del__" /\ last.res = "ok"
    /\ last.unlink = <<-1>>
    /\ last.self.creator /\ ~last.self.persist

(***************************************************************************)
(* Calls with timeout = 0.                                                 *)
(***************************************************************************)
\* Object h has what its send of data needs: write access and a payload
\* within the queue's message size.
CanSend(h, data) ==
    /\ fds[handles[h].ref].acc # "r"
    /\ Len(data) <= queues[QueueOf(h)].msgsize

\* Object h has what its recv needs: read access and a buffer of at least
\* the queue's message size.
CanRecv(h) ==
    /\ fds[handles[h].ref].acc # "w"
    /\ recv_buffer_size(handles[h]) >= queues[QueueOf(h)].msgsize

\* The call op of object h has completed in this step, with result res.
Completed(h, op, res) ==
    /\ call'[h].op = "idle"
    /\ last'.h = h /\ last'.op = op /\ last'.res = res

\* What the last call raised when it found no room or no message at once:
\* Timeout on a descriptor opened without O_NONBLOCK, and
\* MessageQueueError(EAGAIN) on one opened with it.
WouldBlock(h, op) ==
    IF fds[handles[h].ref].nonblock
    THEN Completed(h, op, "MessageQueueError") /\ last'.sym = "EAGAIN"
    ELSE Completed(h, op, "Timeout")

\* C12 as amended: send(data, timeout=0) and recv(timeout=0) never block:
\* in every state the call completes in the step it is made in.  On an
\* object with read access and a buffer for the queue's message size,
\* recv(timeout=0) returns and removes the head message when the queue
\* holds one, whatever the clock says, and otherwise raises at once and
\* leaves the queue as it is.  On an object with write access and for a
\* payload within the queue's message size, send(data, timeout=0) enqueues
\* when there is room, and otherwise raises at once and enqueues nothing.
\* What is raised at once is Timeout when the descriptor was opened without
\* O_NONBLOCK, and MessageQueueError(EAGAIN) when it was opened with it.
C12_ZeroTimeout ==
    [][\A h \in Handles :
          /\ \A data \in Payloads, priority \in Priorities :
                send(h, data, priority, 0) =>
                   /\ call'[h].op = "idle"
                   /\ last'.h = h /\ last'.op = "send"
                   /\ CanSend(h, data) =>
                         IF HasRoom(Kernel, QueueOf(h))
                         THEN /\ Completed(h, "send", "ok")
                              /\ SendStep(QueueOf(h))
                              /\ Len(queues'[QueueOf(h)].msgs) =
                                    Len(queues[QueueOf(h)].msgs) + 1
                         ELSE WouldBlock(h, "send") /\ queues' = queues
          /\ recv(h, 0) =>
                /\ call'[h].op = "idle"
                /\ last'.h = h /\ last'.op = "recv"
                /\ CanRecv(h) =>
                      IF HasMessage(Kernel, QueueOf(h))
                      THEN /\ Completed(h, "recv", "ok")
                           /\ last'.msg.id = Head(queues[QueueOf(h)].msgs).id
                           /\ queues'[QueueOf(h)].msgs = Tail(queues[QueueOf(h)].msgs)
                      ELSE WouldBlock(h, "recv") /\ queues' = queues]_vars

\* C12 as stated, read for the objects that have the access and the sizes
\* their call needs: recv(timeout=0) returns a message when one is
\* enqueued and otherwise fails with Timeout at once; send(data, timeout=0)
\* enqueues when there is room and otherwise fails with Timeout at once.
C12_AlwaysTimeout ==
    [][\A h \in Handles :
          /\ \A data \in Payloads, priority \in Priorities :
                (send(h, data, priority, 0) /\ CanSend(h, data)) =>
                   IF HasRoom(Kernel, QueueOf(h))
                   THEN Completed(h, "send", "ok")
                   ELSE Completed(h, "send", "Timeout")
          /\ (recv(h, 0) /\ CanRecv(h)) =>
                IF HasMessage(Kernel, QueueOf(h))
                THEN Completed(h, "recv", "ok")
                ELSE Completed(h, "recv", "Timeout")]_vars

\* C12 witness: a send(data, timeout=0) on a full queue has raised Timeout
\* in the step it was made in, at a time when its deadline int(time()) + 0
\* lay in the past.
C12_Witness ==
    /\ last.op = "send" /\ last.res = "Timeout"
    /\ last.deadline = last.start \div TicksPerSec
    /\ last.deadline * TicksPerSec < last.start
    /\ now = last.start
    /\ handles[last.h].st = "open"
    /\ ~HasRoom(Kernel, QueueOf(last.h))

(***************************************************************************)
(* Who removes a queue.                                                    *)
(***************************************************************************)
\* In this step the name nm leaves the namespace.
Unlinked(nm) == namespace[nm] # 0 /\ namespace'[nm] = 0

\* C13: a name leaves the namespace only in the finalizer of an open object
\* of that name constructed with create=True and persist=False.  The
\* finalizer of an object constructed without create, or with
\* persist=True, closes the object's descriptor and leaves the namespace,
\* and every named queue with its messages, as they are.
C13_OnlyCreatorRemoves ==
    /\ [][\A nm \in KernelNames :
             Unlinked(nm) =>
                \E h \in Handles :
                   /\ Disposed(h, "open")
                   /\ handles[h].name = nm
                   /\ handles[h].creator /\ ~handles[h].persist]_vars
    /\ [][\A h \in Handles :
             (Disposed(h, "open") /\ (~handles[h].creator \/ handles[h].persist)) =>
                /\ ~ValidFd(Kernel', handles[h].ref)
                /\ \A d \in Fds \ {handles[h].ref} : fds'[d] = fds[d]
                /\ namespace' = namespace
                /\ \A nm \in KernelNames :
                      namespace[nm] # 0 => queues'[namespace[nm]] = queues[namespace[nm]]]_vars

\* C13 witness: the finalizer of an object constructed without create has
\* run; the name is in the namespace and its queue holds a message.
C13_Witness ==
    /\ last.op = "__del__" /\ last.res = "ok"
    /\ last.self.st = "open" /\ ~last.self.creator
    /\ namespace[last.self.name] # 0
    /\ queues[namespace[last.self.name]].msgs # <<>>

(***************************************************************************)
(* SpecDrain: iteration next to senders that need not stop.  The history   *)
(* the model keeps (the count of sends, the messages sent and received,    *)
(* what a generator has yielded) is dropped now and then, so that the      *)
(* bound on the history does not bound the sends.  The consumer of a       *)
(* generator goes on calling next() while it can (a for loop).             *)
(***************************************************************************)
ArgsDrain == [Defaults EXCEPT !.timeouts = {0}]

\* No step of the program: the history is dropped while no queue holds a
\* message.
Forget ==
    /\ nsent > 0
    /\ \A q \in QIds : queues[q].msgs = <<>>
    /\ nsent' = 0
    /\ queues' = [q \in QIds |-> [queues[q] EXCEPT !.sent = <<>>, !.rcvd = <<>>]]
    /\ iters' = [h \in Handles |->
                   IF iters[h].st = "none" THEN iters[h]
                   ELSE [iters[h] EXCEPT !.yielded = <<>>, !.snap = <<>>, !.clean = FALSE]]
    /\ last' = [last EXCEPT !.msg = NoMsg]
    /\ UNCHANGED <<handles, call, namespace, fds, now, nopen>>

NextDrain == Construct(ArgsDrain) \/ Traffic(ArgsDrain) \/ Iteration \/ Forget

SpecDrain == Init /\ [][NextDrain]_vars /\ \A h \in Handles : WF_vars(next(h))

\* The generator of object h is running.
Iterating(h) == iters[h].st = "active"

\* In this step a message is sent to some queue.
SomeSend == \E q \in QIds : SendStep(q)

\* A next() goes on exactly when its recv(timeout=0) returns a message: the
\* generator ends at the first recv that returns none.
EndsAtFirstMiss ==
    \A h \in Handles :
       next(h) =>
          (Iterating(h)' <=>
             /\ RecvErrno(Kernel, handles[h].ref, recv_buffer_size(handles[h])) = 0
             /\ HasMessage(Kernel, QueueOf(h)))

\* C14 as amended: a generator ends at the first recv(timeout=0) that
\* returns no message, and a generator whose consumer goes on calling
\* next() ends unless messages are sent to the queues for ever: either
\* sends happen again and again without end, or every running generator
\* comes to its end.
C14_IterTerminates ==
    /\ [][EndsAtFirstMiss]_vars
    /\ \A h \in Handles :
          ([]<><<SomeSend>>_vars) \/ (Iterating(h) ~> ~Iterating(h))

\* C14 as stated: every running generator comes to its end, also while
\* other objects keep sending.
C14_AlwaysTerminates ==
    \A h \in Handles : Iterating(h) ~> ~Iterating(h)

\* C14 witness: a generator has ended after it yielded a message that
\* another object sent while the generator was running.
C14_Witness ==
    \E h \in Handles :
       /\ iters[h].st = "done"
       /\ last.h = h /\ last.op = "next" /\ last.res = "StopIteration"
       /\ iters[h].yielded # <<>>
       /\ Len(iters[h].yielded) > Len(iters[h].snap)

(***************************************************************************)
(* The receive buffer.                                                     *)
(***************************************************************************)
\* C15: on every open object with read access, however it was opened, the
\* buffer of max_size + 1 bytes holds the queue's message size, and a recv
\* on a non-empty queue returns the head message: it raises no size error.
C15_BufferLargeEnough ==
    /\ [](\A h \in Handles :
             (handles[h].st = "open" /\ fds[handles[h].ref].acc # "w") =>
                recv_buffer_size(handles[h]) >= queues[QueueOf(h)].msgsize)
    /\ [][\A h \in Handles, timeout \in {None, 0} :
             ( /\ recv(h, timeout)
               /\ fds[handles[h].ref].acc # "w"
               /\ HasMessage(Kernel, QueueOf(h)) ) =>
                  /\ Completed(h, "recv", "ok")
                  /\ last'.msg.id = Head(queues[QueueOf(h)].msgs).id]_vars

\* C15: a recv on a non-empty queue, by an object with read access, has
\* raised MessageQueueError(EMSGSIZE): the object was constructed with a
\* max_size of its own on a queue that existed with a larger message size.
C15_Witness ==
    /\ last.op = "recv" /\ last.res = "MessageQueueError" /\ last.sym = "EMSGSIZE"
    /\ handles[last.h].st = "open"
    /\ fds[handles[last.h].ref].acc # "w"
    /\ ~handles[last.h].made
    /\ queues[QueueOf(last.h)].msgs # <<>>
    /\ handles[last.h].max_size + 1 < queues[QueueOf(last.h)].msgsize

(***************************************************************************)
(* Deadlines.                                                              *)
(***************************************************************************)
\* A timed call made now with timeout T has the deadline of whole seconds
\* floor(now) + T, in the record rec of the call.
DeadlineOf(rec, T) ==
    /\ rec.start = now
    /\ rec.deadline = (now \div TicksPerSec) + T

\* C16: every send or recv with a timeout T builds its deadline when it is
\* called, from the clock of that moment: floor(seconds) + T, in whole
\* seconds.  A timed call that waits raises Timeout in the step in which
\* the clock reaches its own deadline, never later, which is at most T and
\* more than T - 1 seconds after the call; one that raises Timeout at once
\* has T = 0 and raises it at the time of the call.  The Timeout a call
\* raises is for the deadline that call computed, not an earlier call's.
C16_Deadline ==
    /\ [][\A h \in Handles, T \in 0..MaxTimeout :
             /\ \A data \in Payloads, priority \in Priorities :
                   send(h, data, priority, T) =>
                      /\ call'[h].op = "send" => DeadlineOf(call'[h], T)
                      /\ (last' # last /\ last'.res = "Timeout") =>
                            DeadlineOf(last', T) /\ T = 0
             /\ recv(h, T) =>
                   /\ call'[h].op = "recv" => DeadlineOf(call'[h], T)
                   /\ (last' # last /\ last'.res = "Timeout") =>
                         DeadlineOf(last', T) /\ T = 0]_vars
    /\ [][\A h \in Handles, op \in {"send", "recv"} :
             (TimedBlocked(h, op) /\ call'[h].op = "idle" /\ last'.res = "Timeout") =>
                /\ EndsByTimeout(h, op)
                /\ last'.start = call[h].start
                /\ last'.deadline = call[h].deadline]_vars
    /\ [](\A h \in Handles :
             call[h].deadline # None =>
                /\ now <= call[h].deadline * TicksPerSec
                /\ call[h].deadline \in
                      {(call[h].start \div TicksPerSec) + T : T \in 1..MaxTimeout})

\* C16 witness: a call made with timeout 1 between two whole seconds has
\* raised Timeout when the clock reached the next whole second, less than
\* a second after the call.
C16_Witness ==
    /\ last.res = "Timeout"
    /\ last.start % TicksPerSec # 0
    /\ last.deadline = (last.start \div TicksPerSec) + 1
    /\ now = last.deadline * TicksPerSec
    /\ now - last.start < TicksPerSec
    /\ now - last.start > 0

(***************************************************************************)
(* Calls without timeout.                                                  *)
(***************************************************************************)
\* Object h is blocked in a call op made without timeout.
Waiting(h, op) == call[h].op = op /\ call[h].deadline = None

\* Object h is blocked in both states of this step and nothing is reported
\* for it.
StaysBlocked(h) == call'[h] = call[h] /\ ~(last' # last /\ last'.h = h)

\* C17: on an object with write access whose descriptor was opened without
\* O_NONBLOCK, a send without timeout of a payload within the message size
\* to a full queue blocks: it enqueues nothing and raises nothing.  A
\* blocked send stays blocked in every step that starts with the queue
\* full, and leaves the blocked state only by succeeding, enqueuing its
\* payload in a queue that has room; room is only made by a recv.  Once
\* there is room, the blocked send completes, unless another sender has
\* taken the room.  Symmetrically a recv without timeout on an empty queue
\* blocks, stays blocked while the queue is empty, leaves only by returning
\* the head message, messages only arrive by a send, and once there is a
\* message the blocked recv returns, unless another receiver has taken it.
C17_BlockingCalls ==
    /\ [][\A h \in Handles :
             /\ \A data \in Payloads, priority \in Priorities :
                   ( /\ send(h, data, priority, None)
                     /\ CanSend(h, data) /\ ~fds[handles[h].ref].nonblock
                     /\ ~HasRoom(Kernel, QueueOf(h)) ) =>
                        /\ Waiting(h, "send")' /\ call'[h].data = data
                        /\ last' = last /\ queues' = queues
             /\ ( /\ recv(h, None)
                  /\ CanRecv(h) /\ ~fds[handles[h].ref].nonblock
                  /\ ~HasMessage(Kernel, QueueOf(h)) ) =>
                     /\ Waiting(h, "recv")'
                     /\ last' = last /\ queues' = queues]_vars
    /\ [][\A h \in Handles :
             /\ Waiting(h, "send") =>
                   IF HasRoom(Kernel, QueueOf(h))
                   THEN StaysBlocked(h) \/
                           /\ Completed(h, "send", "ok")
                           /\ SendStep(QueueOf(h))
                           /\ last'.msg.data = call[h].data
                           /\ \E i \in DOMAIN queues'[QueueOf(h)].msgs :
                                 /\ queues'[QueueOf(h)].msgs[i].id = nsent'
                                 /\ queues'[QueueOf(h)].msgs[i].data = call[h].data
                   ELSE StaysBlocked(h)
             /\ Waiting(h, "recv") =>
                   IF HasMessage(Kernel, QueueOf(h))
                   THEN StaysBlocked(h) \/
                           /\ Completed(h, "recv", "ok")
                           /\ RecvStep(QueueOf(h))
                           /\ last'.msg.id = Head(queues[QueueOf(h)].msgs).id
                   ELSE StaysBlocked(h)]_vars
    /\ [][\A q \in QIds :
             (queues[q].live /\ queues'[q].live) =>
                /\ Len(queues'[q].msgs) < Len(queues[q].msgs) => RecvStep(q)
                /\ Len(queues'[q].msgs) > Len(queues[q].msgs) => SendStep(q)]_vars
    /\ \A h \in Handles :
          /\ (Waiting(h, "send") /\ HasRoom(Kernel, QueueOf(h))) ~>
                (call[h].op = "idle" \/ ~HasRoom(Kernel, QueueOf(h)))
          /\ (Waiting(h, "recv") /\ HasMessage(Kernel, QueueOf(h))) ~>
                (call[h].op = "idle" \/ ~HasMessage(Kernel, QueueOf(h)))

\* C17 witness: an object is blocked in a send without timeout that it
\* made some time ago, and another object has just received a message from
\* the queue, which now has room.
C17_Witness ==
    \E h \in Handles :
       /\ Waiting(h, "send")
       /\ now > call[h].start
       /\ HasRoom(Kernel, QueueOf(h))
       /\ last.op = "recv" /\ last.res = "ok" /\ last.h # h
       /\ QueueOf(last.h) = QueueOf(h)

(***************************************************************************)
(* full() on every object.                                                 *)
(***************************************************************************)
\* C18: on every open object, however it was opened, full() returns true
\* exactly when the queue holds as many messages as it was created to
\* hold (mq_maxmsg), which is when a send(data, timeout=0) finds no room.
C18_FullIsCapacity ==
    [][\A h \in Handles :
          full(h) =>
             /\ last'.h = h /\ last'.op = "full" /\ last'.res = "ok"
             /\ last'.b <=> (Len(queues[QueueOf(h)].msgs) = queues[QueueOf(h)].maxmsg)
             /\ last'.b <=> ~HasRoom(Kernel, QueueOf(h))]_vars

\* C18: full() has returned false on an object opened on an existing queue
\* that holds as many messages as it was created to hold.
C18_Witness ==
    /\ last.op = "full" /\ last.res = "ok" /\ ~last.b
    /\ handles[last.h].st = "open" /\ ~handles[last.h].made
    /\ ~HasRoom(Kernel, QueueOf(last.h))
    /\ handles[last.h].max_messages > queues[QueueOf(last.h)].maxmsg

(***************************************************************************)
(* What a call changes.                                                    *)
(***************************************************************************)
\* This step reports the result res of a call op of some object.
Reports(ops, results) == last' # last /\ last'.op \in ops /\ last'.res \in results

\* What len() reads of queue q.
Count(q) == Len(queues[q].msgs)

\* C19: a send or recv that raises, Timeout or any MessageQueueError,
\* leaves every queue as it was: the same messages in the same order, the
\* same count.  __len__, empty and full change no queue.  A send that
\* succeeds adds one message to its queue and a recv that succeeds removes
\* one, the head; the other queues stay as they are.
C19_FailedCallsChangeNothing ==
    [][/\ Reports({"send", "recv"}, {"Timeout", "MessageQueueError"}) =>
             /\ queues' = queues
             /\ namespace' = namespace /\ fds' = fds /\ nsent' = nsent
       /\ Reports({"__len__", "empty", "full"}, {"ok", "Timeout", "MessageQueueError"}) =>
             /\ queues' = queues
             /\ namespace' = namespace /\ fds' = fds /\ nsent' = nsent
       /\ Reports({"send"}, {"ok"}) =>
             /\ SendStep(QueueOf(last'.h))
             /\ Len(queues'[QueueOf(last'.h)].msgs) = Count(QueueOf(last'.h)) + 1
             /\ \A q \in QIds \ {QueueOf(last'.h)} : queues'[q] = queues[q]
       /\ Reports({"recv"}, {"ok"}) =>
             /\ RecvStep(QueueOf(last'.h))
             /\ Len(queues'[QueueOf(last'.h)].msgs) = Count(QueueOf(last'.h)) - 1
             /\ queues'[QueueOf(last'.h)].msgs = Tail(queues[QueueOf(last'.h)].msgs)
             /\ \A q \in QIds \ {QueueOf(last'.h)} : queues'[q] = queues[q]
       /\ \A q \in QIds :
             (queues[q].live /\ queues'[q].live /\ queues'[q] # queues[q]) =>
                /\ Reports({"send", "recv"}, {"ok"})
                /\ QueueOf(last'.h) = q]_vars

\* C19 witness: a send to a full queue has raised Timeout, and the queue
\* holds the message it held.
C19_Witness ==
    /\ last.op = "send" /\ last.res = "Timeout"
    /\ handles[last.h].st = "open"
    /\ Count(QueueOf(last.h)) > 0
    /\ ~HasRoom(Kernel, QueueOf(last.h))

(***************************************************************************)
(* A queue and the object that made it.                                    *)
(***************************************************************************)
\* C20: while the object whose mq_open brought the queue into existence
\* (create=True, persist=False) is open, its name names its queue, and an
\* open of the name without create, in any mode, succeeds when a
\* descriptor is free, whatever other objects of that name have been
\* constructed and finalized.
C20_QueueOutlivesOnlyCreator ==
    \A h \in Handles :
       (handles[h].st = "open" /\ handles[h].made /\ ~handles[h].persist) =>
          /\ namespace[handles[h].name] = QueueOf(h)
          /\ (\E d \in Fds : fds[d].q = 0) =>
                \A mode \in {"r", "w", "rw"} :
                   LaterOpen(Kernel, handles[h].name, mode).ret # -1

\* C20: the object that made the queue is open, and the finalizer of
\* another object, constructed with create=True on the queue that already
\* existed, has just removed the name.
C20_Witness ==
    /\ last.op = "__del__" /\ last.res = "ok"
    /\ last.self.creator /\ ~last.self.persist /\ ~last.self.made
    /\ last.unlink = <<0>>
    /\ \E h \in Handles :
          /\ handles[h].st = "open" /\ handles[h].made /\ ~handles[h].persist
          /\ handles[h].name = last.self.name
          /\ namespace[handles[h].name] = 0
          /\ LaterOpen(Kernel, handles[h].name, "r").errno = Errno("ENOENT")
====
